---- MODULE Spec2Model ----
(***************************************************************************)
(* The parallel batch dispatcher of the EOB processor                      *)
(* (parallel_utils.py): parallel_process_pdfs submits one task per         *)
(* uploaded document to a process pool, each task runs process_single_pdf  *)
(* (materialize to a temporary file, extract, delete the file), and the    *)
(* dispatcher handles the completions in the order they arrive.            *)
(***************************************************************************)
EXTENDS Integers, Sequences, FiniteSets, TLC

\* ------------------------------------------------------------------ bounds

\* Largest batch (number of uploaded documents) explored.
MaxN == 2
\* Largest pool size a caller passes as max_workers.
MaxWorkersArg == 2
\* Largest core count os.cpu_count() reports.
MaxCpu == 3

\* ------------------------------------------------------------- the inputs

\* The document handles a batch is drawn from.  What happens to a document
\* depends on its bytes only: "a" and "b" hold two different EOB payloads,
\* "e" parses to no content, "x" makes the extraction raise, and "u" is a
\* handle whose getvalue() raises (its buffer is closed).
Docs == {"a", "b", "e", "x", "u"}

\* pdf_file.name, the display name of a document handle.
Name(d) == d

\* Every batch of at most MaxN documents, duplicates included.
Batches == UNION {[1..n -> Docs] : n \in 0..MaxN}

\* A call's result or a future's outcome: a returned value or a raised
\* exception (val is the value, or str(e)).
Returned(v) == [kind |-> "returned", val |-> v]
Raised(e) == [kind |-> "raised", val |-> e]
NoOutcome == [kind |-> "none", val |-> "none"]

\* pdf_file.getvalue(): the bytes of the document, or the failure of a
\* handle that cannot be read.
GetValue(d) ==
    IF d = "u" THEN Raised("ValueError: I/O operation on closed file")
    ELSE Returned(d)

\* extract_pdf_data: None when the parser found no content, the record of
\* the document's fields otherwise; a malformed document raises.
ExtractPdfData(d) ==
    CASE d = "e" -> Returned("None")
      [] d = "x" -> Raised("ParseError")
      [] OTHER -> Returned("record_" \o d)

\* The outcomes of os.unlink on the temporary file: it succeeds, or raises
\* PermissionError, FileNotFoundError, or another OSError (EBUSY, EIO, ...).
UnlinkOutcomes == {"ok", "PermissionError", "FileNotFoundError", "OSError"}

\* os.cpu_count(): the number of cores, or None (0 here) when undetermined.
CpuNone == 0
CpuCounts == {CpuNone} \cup 1..MaxCpu
\* os.cpu_count() was not called: the caller gave max_workers.
CpuUnread == 0 - 1

\* The max_workers argument: None (the default) or an integer.
NoneArg == [given |-> FALSE, n |-> 0]
Given(n) == [given |-> TRUE, n |-> n]
WorkerArgs == {NoneArg} \cup {Given(n) : n \in 0..MaxWorkersArg}

\* The names tempfile can give to a temporary file.
Paths == 1..MaxN
NoPath == 0
\* The futures of a batch, in submission order.
Futures == 1..MaxN
NoFuture == 0

VARIABLES
    pdf_files,       \* the batch passed to parallel_process_pdfs
    max_workers,     \* the max_workers argument, then the pool size used
    pc,              \* the dispatcher: call, submit, collect, done, raised
    exc,             \* the exception that left parallel_process_pdfs
    future_to_pdf,   \* future (its index) -> the document it was submitted for
    tstate,          \* per future: none, queued, extract, cleanup, finished
    temp_file_path,  \* per future: temp_file_path of process_single_pdf
    pdf_data,        \* per future: the outcome of extract_pdf_data_func
    unlink_res,      \* per future: the outcome of os.unlink, "none" before
    result,          \* per future: what future.result() returns or raises
    fs,              \* temporary directory: path -> future that created it
    yielded,         \* the futures as_completed has yielded so far
    all_data,        \* the result collection
    warnings,        \* the st.warning calls
    errors,          \* the st.error calls
    progress_bar,    \* the progress bar's value
    pushed,          \* the progress_bar.progress / status_text.text calls
    cpu_count,       \* what os.cpu_count() returned, CpuUnread if not called
    top_level        \* the messages of the Process PDFs handler of main.py

vars == <<pdf_files, max_workers, pc, exc, future_to_pdf, tstate,
          temp_file_path, pdf_data, unlink_res, result, fs, yielded,
          all_data, warnings, errors, progress_bar, pushed, cpu_count,
          top_level>>

\* total_files = len(pdf_files)
total_files == Len(pdf_files)

\* The progress bar before st.progress(0) created it, and after
\* progress_bar.empty() cleared it; a value is the fraction num/den.
NoProgress == [shown |-> "unset", num |-> 0, den |-> 1]
EmptyProgress == [shown |-> "empty", num |-> 0, den |-> 1]
Fraction(n, d) == [shown |-> "value", num |-> n, den |-> d]

Init ==
    /\ pdf_files \in Batches
    /\ max_workers \in WorkerArgs
    /\ pc = "call"
    /\ exc = "None"
    /\ future_to_pdf = <<>>
    /\ tstate = [f \in Futures |-> "none"]
    /\ temp_file_path = [f \in Futures |-> NoPath]
    /\ pdf_data = [f \in Futures |-> NoOutcome]
    /\ unlink_res = [f \in Futures |-> "none"]
    /\ result = [f \in Futures |-> NoOutcome]
    /\ fs = [p \in Paths |-> NoFuture]
    /\ yielded = {}
    /\ all_data = <<>>
    /\ warnings = <<>>
    /\ errors = <<>>
    /\ progress_bar = NoProgress
    /\ pushed = <<>>
    /\ cpu_count = CpuUnread
    /\ top_level = <<>>

\* ------------------------------------------------- parallel_process_pdfs

Max(a, b) == IF a >= b THEN a ELSE b

\* max_workers = max(1, os.cpu_count() - 1) when the caller gave None, the
\* caller's value otherwise; None - 1 is a TypeError.
PoolSize_nofloor(arg, cpu) ==
    IF arg.given THEN Returned(arg.n)
    ELSE IF cpu = CpuNone THEN Raised("TypeError")
    ELSE Returned(cpu - 1)
PoolSize(arg, cpu) ==
    IF arg.given THEN Returned(arg.n)
    ELSE IF cpu = CpuNone THEN Raised("TypeError")
    ELSE Returned(Max(1, cpu - 1))

\* ProcessPoolExecutor(max_workers=n) refuses a pool size below one.
ExecutorInit(n) == IF n <= 0 THEN "ValueError" ELSE "None"

\* The submission loop `for pdf_file in pdf_files` has run k times and is
\* exhausted.
Exhausted_offbyone(files, k) == k >= Len(files) - 1
Exhausted(files, k) == k = Len(files)

\* Lines 29-39: the progress bar is created at 0, the pool size is settled
\* and the executor is constructed.
Call ==
    /\ pc = "call"
    /\ progress_bar' = Fraction(0, 1)
    /\ \E cpu \in CpuCounts :
         LET size == PoolSize(max_workers, cpu) IN
           /\ cpu_count' = IF max_workers.given THEN CpuUnread ELSE cpu
           /\ IF size.kind = "raised"
              THEN /\ pc' = "raised"
                   /\ exc' = size.val
                   /\ UNCHANGED max_workers
              ELSE /\ max_workers' = Given(size.val)
                   /\ exc' = ExecutorInit(size.val)
                   /\ pc' = IF exc' # "None" THEN "raised"
                            ELSE IF Exhausted(pdf_files, 0) THEN "collect"
                            ELSE "submit"
    /\ UNCHANGED <<pdf_files, future_to_pdf, tstate, temp_file_path, pdf_data,
                   unlink_res, result, fs, yielded, all_data, warnings,
                   errors, pushed, top_level>>

\* Lines 41-42: executor.submit(process_single_pdf, pdf_file, ...) for the
\* next document; the new future is queued behind the earlier ones.
Submit ==
    /\ pc = "submit"
    /\ LET f == Len(future_to_pdf) + 1 IN
         /\ future_to_pdf' = Append(future_to_pdf, pdf_files[f])
         /\ tstate' = [tstate EXCEPT ![f] = "queued"]
         /\ pc' = IF Exhausted(pdf_files, f) THEN "collect" ELSE "submit"
    /\ UNCHANGED <<pdf_files, max_workers, exc, temp_file_path, pdf_data,
                   unlink_res, result, fs, yielded, all_data, warnings,
                   errors, progress_bar, pushed,
                   cpu_count, top_level>>

\* ---------------------------------------------------- process_single_pdf

\* The futures a worker process of the pool is busy with.
Running == {f \in Futures : tstate[f] \in {"extract", "cleanup"}}

\* The paths no file of the temporary directory has.
UnusedPaths == {p \in Paths : fs[p] = NoFuture}

\* The name NamedTemporaryFile gives to the new file: a random name that no
\* existing file has.  The names are interchangeable, so the least unused
\* one stands for the draw.
FreePaths_fixed == {1}
FreePaths == {p \in UnusedPaths : \A q \in UnusedPaths : p <= q}

\* A pool of n worker processes has one free for the next queued task when
\* fewer than n tasks are running.
WorkerFree_strict(busy, n) == Cardinality(busy) < n - 1
WorkerFree(busy, n) == Cardinality(busy) < n

\* The directory entry of the file the task f created, once the with block
\* of line 9 has closed it: delete=False keeps the file.
ClosedFile_deleted(f) == NoFuture
ClosedFile(f) == f

\* Lines 9-11, run by a free worker for the oldest queued future:
\* NamedTemporaryFile(delete=False) creates a file under a name no file has,
\* and the document's bytes are written to it.  When getvalue() raises, the
\* with block closes the file and the exception leaves the task: the try of
\* line 13 is never entered and the file stays.
Materialize(f) ==
    /\ tstate[f] = "queued"
    /\ \A g \in Futures : g < f => tstate[g] # "queued"
    /\ WorkerFree(Running, max_workers.n)
    /\ \E p \in FreePaths :
         LET bytes == GetValue(future_to_pdf[f]) IN
           /\ fs' = [fs EXCEPT ![p] = ClosedFile(f)]
           /\ IF bytes.kind = "returned"
              THEN /\ temp_file_path' = [temp_file_path EXCEPT ![f] = p]
                   /\ tstate' = [tstate EXCEPT ![f] = "extract"]
                   /\ UNCHANGED result
              ELSE /\ tstate' = [tstate EXCEPT ![f] = "finished"]
                   /\ result' = [result EXCEPT ![f] = bytes]
                   /\ UNCHANGED temp_file_path
    /\ UNCHANGED <<pdf_files, max_workers, pc, exc, future_to_pdf, pdf_data,
                   unlink_res, yielded, all_data, warnings, errors,
                   progress_bar, pushed,
                   cpu_count, top_level>>

\* Lines 13-17: where the task goes when extract_pdf_data_func has returned
\* or raised: the finally clause runs either way.
Finally_onreturn(outcome) ==
    IF outcome.kind = "raised" THEN "finished" ELSE "cleanup"
Finally_retry(outcome) ==
    IF outcome.kind = "raised" \/ outcome.val = "None" THEN "extract"
    ELSE "cleanup"
Finally(outcome) == "cleanup"

\* Line 15: pdf_data = extract_pdf_data_func(temp_file_path).
Extract(f) ==
    /\ tstate[f] = "extract"
    /\ LET outcome == ExtractPdfData(future_to_pdf[f]) IN
         /\ pdf_data' = [pdf_data EXCEPT ![f] = outcome]
         /\ tstate' = [tstate EXCEPT ![f] = Finally(outcome)]
         /\ result' = IF Finally(outcome) = "finished"
                      THEN [result EXCEPT ![f] = outcome]
                      ELSE result
    /\ UNCHANGED <<pdf_files, max_workers, pc, exc, future_to_pdf,
                   temp_file_path, unlink_res, fs, yielded, all_data,
                   warnings, errors, progress_bar, pushed,
                   cpu_count, top_level>>

\* Line 21: except (PermissionError, FileNotFoundError): pass.
Swallowed_permission(r) == r = "PermissionError"
Swallowed(r) == r \in {"PermissionError", "FileNotFoundError"}

\* What the task returns or raises once the finally clause has run: the
\* extraction's outcome, unless os.unlink raised an exception that line 21
\* does not catch, which then replaces it.
TaskResult(outcome, r) ==
    IF r = "ok" \/ Swallowed(r) THEN outcome ELSE Raised(r)

\* Lines 19-22: os.unlink(temp_file_path).  The file is gone when the call
\* succeeds, and was gone already when it raises FileNotFoundError.
Unlink(f) ==
    /\ tstate[f] = "cleanup"
    /\ \E r \in UnlinkOutcomes :
         /\ unlink_res' = [unlink_res EXCEPT ![f] = r]
         /\ fs' = IF r \in {"ok", "FileNotFoundError"}
                  THEN [fs EXCEPT ![temp_file_path[f]] = NoFuture]
                  ELSE fs
         /\ result' = [result EXCEPT ![f] = TaskResult(pdf_data[f], r)]
    /\ tstate' = [tstate EXCEPT ![f] = "finished"]
    /\ UNCHANGED <<pdf_files, max_workers, pc, exc, future_to_pdf,
                   temp_file_path, pdf_data, yielded, all_data, warnings,
                   errors, progress_bar, pushed,
                   cpu_count, top_level>>

\* ------------------------------------------------- handling a completion

\* Line 46: pdf_file = future_to_pdf[future], for the i-th completion.
PdfOf_bycount(f2p, future, i) == f2p[i + 1]
PdfOf(f2p, future, i) == f2p[future]

\* Line 49: the truth value of pdf_data.
Truthy(v) == v # "None"

\* Lines 49-50: all_data.append(pdf_data) for a record.  An entry keeps, as
\* `of`, the future whose result the appended object is.
AppendData_twice(data, res, future) ==
    IF res.kind = "returned" /\ Truthy(res.val)
    THEN data \o <<[data |-> res.val, of |-> future],
                   [data |-> res.val, of |-> future]>>
    ELSE data
AppendData_front(data, res, future) ==
    IF res.kind = "returned" /\ Truthy(res.val)
    THEN <<[data |-> res.val, of |-> future]>> \o data
    ELSE data
AppendData(data, res, future) ==
    IF res.kind = "returned" /\ Truthy(res.val)
    THEN Append(data, [data |-> res.val, of |-> future])
    ELSE data

\* Lines 51-52: st.warning(f"No data extracted from {pdf_file.name}").
AppendWarning_never(log, res, pdf_file, future) == log
AppendWarning(log, res, pdf_file, future) ==
    IF res.kind = "returned" /\ ~Truthy(res.val)
    THEN Append(log, [name |-> Name(pdf_file), of |-> future])
    ELSE log

\* Lines 53-54: st.error(f"Error processing {pdf_file.name}: {str(e)}").
AppendError_silent(log, res, pdf_file, future) == log
AppendError(log, res, pdf_file, future) ==
    IF res.kind = "raised"
    THEN Append(log, [name |-> Name(pdf_file), description |-> res.val,
                      of |-> future])
    ELSE log

\* Lines 47 and 53: the exception that leaves the loop body; `except
\* Exception` catches whatever future.result() raises.
Uncaught_all(res) == IF res.kind = "raised" THEN res.val ELSE "None"
Uncaught(res) == "None"

\* Line 57: progress = (i + 1) / total_files.
Progress_fromzero(i, total) == Fraction(i, total)
Progress(i, total) == Fraction(i + 1, total)

\* Line 59: f"Processing PDFs: {i+1}/{total_files}".
StatusText(i, total) == <<i + 1, total>>

\* concurrent.futures.as_completed(future_to_pdf) yields a future that has
\* finished and that it has not yielded yet.
Completed == {f \in DOMAIN future_to_pdf : tstate[f] = "finished"} \ yielded

\* Lines 45-59, one iteration of the loop for the future as_completed yields.
HandleCompletion(future) ==
    /\ pc = "collect"
    /\ future \in Completed
    /\ LET i == Cardinality(yielded)
           pdf_file == PdfOf(future_to_pdf, future, i)
           res == result[future]
       IN  /\ yielded' = yielded \cup {future}
           /\ all_data' = AppendData(all_data, res, future)
           /\ warnings' = AppendWarning(warnings, res, pdf_file, future)
           /\ exc' = Uncaught(res)
           /\ IF exc' = "None"
              THEN /\ errors' = AppendError(errors, res, pdf_file, future)
                   /\ progress_bar' = Progress(i, total_files)
                   /\ pushed' = Append(pushed,
                          [progress |-> Progress(i, total_files),
                           text |-> StatusText(i, total_files)])
                   /\ pc' = "collect"
              ELSE /\ pc' = "raised"
                   /\ UNCHANGED <<errors, progress_bar, pushed>>
    /\ UNCHANGED <<pdf_files, max_workers, future_to_pdf, tstate,
                   temp_file_path, pdf_data, unlink_res, result, fs,
                   cpu_count, top_level>>

\* as_completed is exhausted: it has yielded every future of future_to_pdf.
LoopExhausted_first == yielded # {} \/ DOMAIN future_to_pdf = {}
LoopExhausted_waits == yielded = DOMAIN future_to_pdf /\ yielded # {}
LoopExhausted == yielded = DOMAIN future_to_pdf

\* Leaving the with block of line 39 is executor.shutdown(wait=True): it
\* returns when no submitted task is pending or running.
ShutdownDone == \A f \in DOMAIN future_to_pdf : tstate[f] = "finished"

\* Lines 61-65: the loop is over, the executor is shut down, the progress
\* bar is cleared and all_data is returned.
Return ==
    /\ pc = "collect"
    /\ LoopExhausted
    /\ ShutdownDone
    /\ progress_bar' = EmptyProgress
    /\ pc' = "done"
    /\ UNCHANGED <<pdf_files, max_workers, exc, future_to_pdf, tstate,
                   temp_file_path, pdf_data, unlink_res, result, fs, yielded,
                   all_data, warnings, errors, pushed,
                   cpu_count, top_level>>

\* ------------------------------------------- main.py, Process PDFs handler

\* main.py lines 126 and 152, 188: st.success when all_data is not empty,
\* st.error("No valid data extracted from PDFs.") when it is.
BatchMessage_unlessall(data) ==
    IF Len(data) = total_files /\ data # <<>> THEN "success"
    ELSE "No valid data extracted"
BatchMessage(data) ==
    IF data # <<>> THEN "success" ELSE "No valid data extracted"

\* main.py lines 124-188: the handler has the collection the batch call
\* returned and reports on the batch as a whole.
ProcessPdfs ==
    /\ pc = "done"
    /\ top_level' = Append(top_level, BatchMessage(all_data))
    /\ pc' = "reported"
    /\ UNCHANGED <<pdf_files, max_workers, exc, future_to_pdf, tstate,
                   temp_file_path, pdf_data, unlink_res, result, fs, yielded,
                   all_data, warnings, errors, progress_bar, pushed,
                   cpu_count>>

Next ==
    \/ Call
    \/ Submit
    \/ \E f \in Futures : Materialize(f)
    \/ \E f \in Futures : Extract(f)
    \/ \E f \in Futures : Unlink(f)
    \/ \E f \in Futures : HandleCompletion(f)
    \/ Return
    \/ ProcessPdfs

Spec == Init /\ [][Next]_vars

\* The dispatcher runs on, and the pool's worker processes are scheduled:
\* a step that stays possible is eventually taken.
FairSpec ==
    /\ Spec
    /\ WF_vars(Call)
    /\ WF_vars(Submit)
    /\ \A f \in Futures : WF_vars(Materialize(f))
    /\ \A f \in Futures : WF_vars(Extract(f))
    /\ \A f \in Futures : WF_vars(Unlink(f))
    /\ \A f \in Futures : WF_vars(HandleCompletion(f))
    /\ WF_vars(Return)

\* ------------------------------------------------------------ the claims

\* The entries of the three logs that come from the future f.
RecordsOf(f) == {k \in 1..Len(all_data) : all_data[k].of = f}
WarningsOf(f) == {k \in 1..Len(warnings) : warnings[k].of = f}
ErrorsOf(f) == {k \in 1..Len(errors) : errors[k].of = f}

Submitted == DOMAIN future_to_pdf
IsRecord(res) == res.kind = "returned" /\ Truthy(res.val)
IsEmpty(res) == res.kind = "returned" /\ ~Truthy(res.val)
IsFailure(res) == res.kind = "raised"

\* C1: for a batch of N documents exactly N tasks are submitted, the k-th
\* for the k-th document (duplicates included), and parallel_process_pdfs
\* returns only when every one of the N tasks has completed, by returning a
\* record, by returning empty content or by raising.
C1_AllSubmittedAllCompleted ==
    /\ Len(future_to_pdf) <= total_files
    /\ \A k \in Submitted : future_to_pdf[k] = pdf_files[k]
    /\ pc \in {"collect", "done"} => Len(future_to_pdf) = total_files
    /\ pc = "done" =>
         \A f \in 1..total_files :
            /\ tstate[f] = "finished"
            /\ IsRecord(result[f]) \/ IsEmpty(result[f]) \/ IsFailure(result[f])

\* C1 witness: a batch that holds the same document twice has returned,
\* with one task per copy, each having returned its record.
C1_Witness ==
    /\ pc = "done"
    /\ total_files >= 2
    /\ pdf_files[1] = pdf_files[2]
    /\ Len(future_to_pdf) = total_files
    /\ IsRecord(result[1])
    /\ IsRecord(result[2])

C3_FailureReportedOnce ==
    \A f \in Submitted :
       (tstate[f] = "finished" /\ IsFailure(result[f])) =>
          /\ RecordsOf(f) = {}
          /\ Cardinality(ErrorsOf(f)) = IF f \in yielded THEN 1 ELSE 0
          /\ \A k \in ErrorsOf(f) :
                /\ errors[k].name = Name(pdf_files[f])
                /\ errors[k].description = result[f].val
          /\ pc = "done" => f \in yielded

\* C3 witness: the extraction of the second document raised and its
\* completion was handled first, ahead of a document of another name.
C3_Witness ==
    /\ Len(pushed) >= 2
    /\ Len(errors) >= 1
    /\ errors[1].of = 2
    /\ pdf_data[2].kind = "raised"
    /\ 1 \in yielded
    /\ pdf_files[1] # pdf_files[2]

C5_NoExceptionPropagates == pc # "raised" /\ exc = "None"

\* C6: every handled completion (record, empty content or failure alike)
\* pushes one progress value and one status text; the k-th push is the
\* fraction k/N with the text k/N, so the fractions never decrease, lie in
\* (0, 1], and the last one pushed before the call returns is exactly 1.
C6_ProgressMonotoneToOne ==
    /\ Len(pushed) = Cardinality(yielded)
    /\ \A k \in 1..Len(pushed) :
          /\ pushed[k].progress = Fraction(k, total_files)
          /\ pushed[k].text = <<k, total_files>>
          /\ 0 < pushed[k].progress.num
          /\ pushed[k].progress.num <= pushed[k].progress.den
    /\ \A k \in 1..(Len(pushed) - 1) :
          pushed[k].progress.num * pushed[k + 1].progress.den
             <= pushed[k + 1].progress.num * pushed[k].progress.den
    /\ (pushed # <<>> /\ pc = "collect") => progress_bar = pushed[Len(pushed)].progress
    /\ (pc = "done" /\ total_files >= 1) =>
          /\ Len(pushed) = total_files
          /\ pushed[Len(pushed)].progress.num = pushed[Len(pushed)].progress.den

\* C6 witness: a batch has returned after a warning and an error and no
\* record, and a progress value was pushed for each of the two.
C6_Witness ==
    /\ pc = "done"
    /\ Len(pushed) = 2
    /\ all_data = <<>>
    /\ Len(warnings) = 1
    /\ Len(errors) = 1

\* What the task of the future f returns or raises, from its own document
\* and the outcome of its own os.unlink alone.
OwnResult(f) ==
    LET bytes == GetValue(pdf_files[f]) IN
      IF bytes.kind = "raised" THEN bytes
      ELSE TaskResult(ExtractPdfData(pdf_files[f]), unlink_res[f])

\* The numbers of records, warnings and errors the result res is handled by.
Handling(res) ==
    IF IsRecord(res) THEN <<1, 0, 0>>
    ELSE IF IsEmpty(res) THEN <<0, 1, 0>>
    ELSE <<0, 0, 1>>

\* C7: once the failure of a task has been handled, the dispatcher is still
\* collecting or has returned normally, every other task finishes with the
\* result its own document gives, and when the call returns each of them
\* has been handled as that result requires: one record, one warning or one
\* error.
C7_FailureIsolated ==
    (\E f \in yielded : IsFailure(result[f])) =>
       /\ pc \in {"collect", "done", "reported"}
       /\ \A g \in Submitted :
             tstate[g] = "finished" => result[g] = OwnResult(g)
       /\ pc = "done" =>
             \A g \in 1..total_files :
                /\ tstate[g] = "finished"
                /\ <<Cardinality(RecordsOf(g)), Cardinality(WarningsOf(g)),
                     Cardinality(ErrorsOf(g))>> = Handling(OwnResult(g))

\* C7 witness: the failure of one task has been handled while another task
\* is still extracting.
C7_Witness ==
    /\ \E f \in yielded : IsFailure(result[f])
    /\ \E g \in Submitted : tstate[g] = "extract"

\* The task of f has materialized its document: temp_file_path is set.
Materialized(f) == temp_file_path[f] # NoPath

\* C8: a task that materialized its document has attempted os.unlink by the
\* time it finishes, whether the extraction returned a record, returned
\* empty content or raised; so when the call returns, the temporary file of
\* such a task is still there only if its deletion failed.
C8_CleanupOnEveryExit ==
    /\ \A f \in Submitted :
          (tstate[f] = "finished" /\ Materialized(f)) =>
             /\ unlink_res[f] # "none"
             /\ pdf_data[f] # NoOutcome
    /\ pc = "done" =>
          \A f \in Submitted :
             (Materialized(f) /\ fs[temp_file_path[f]] = f) =>
                unlink_res[f] \in {"PermissionError", "OSError"}

\* C8 witness: the call has returned, the extraction of a task raised and
\* its temporary file was deleted.
C8_Witness ==
    /\ pc = "done"
    /\ \E f \in Submitted :
          /\ pdf_data[f].kind = "raised"
          /\ unlink_res[f] = "ok"
          /\ fs[temp_file_path[f]] = NoFuture

\* What a failed deletion must leave untouched: the task's result is the
\* extraction's outcome, and once handled the document has its record, or
\* the one report the extraction's outcome calls for.
CleanupUnnoticed(f) ==
    /\ result[f] = pdf_data[f]
    /\ f \in yielded =>
          /\ <<Cardinality(RecordsOf(f)), Cardinality(WarningsOf(f)),
               Cardinality(ErrorsOf(f))>> = Handling(pdf_data[f])
          /\ \A k \in ErrorsOf(f) : errors[k].description = pdf_data[f].val

\* C9 as stated: whatever way os.unlink failed, the failure is never
\* surfaced and never changes the task's outcome.
C9_AnyCleanupFailureIgnored ==
    \A f \in Submitted :
       (tstate[f] = "finished" /\ unlink_res[f] \notin {"none", "ok"}) =>
          CleanupUnnoticed(f)

\* C9, amended: a deletion that fails with PermissionError or
\* FileNotFoundError is never surfaced and never changes the task's
\* outcome, and the deletion is attempted once; any other error of os.unlink
\* becomes the failure of the task.
C9_CaughtCleanupFailureIgnored ==
    \A f \in Submitted :
       tstate[f] = "finished" =>
          /\ unlink_res[f] \in {"PermissionError", "FileNotFoundError"} =>
                CleanupUnnoticed(f)
          /\ unlink_res[f] = "OSError" => result[f] = Raised("OSError")

\* C9 witness: a task whose extraction returned a record could not delete
\* its file (FileNotFoundError), and its record is in all_data.
C9_Witness ==
    \E f \in yielded :
       /\ unlink_res[f] = "FileNotFoundError"
       /\ IsRecord(pdf_data[f])
       /\ RecordsOf(f) # {}

\* The returned collection as a set, and the set the batch determines: the
\* records of the documents that can be read and whose extraction returns
\* a record.
DataSet == {all_data[k].data : k \in 1..Len(all_data)}
ValidRecords ==
    {ExtractPdfData(pdf_files[k]).val :
        k \in {j \in 1..total_files :
                 /\ GetValue(pdf_files[j]).kind = "returned"
                 /\ IsRecord(ExtractPdfData(pdf_files[j]))}}

C12_EmptyBatchReturnsEmpty ==
    total_files = 0 =>
       /\ future_to_pdf = <<>>
       /\ \A f \in Futures : tstate[f] = "none"
       /\ pushed = <<>>
       /\ all_data = <<>> /\ warnings = <<>> /\ errors = <<>>
       /\ pc # "submit"
       /\ pc = "collect" => ENABLED Return
       /\ progress_bar \in {NoProgress, Fraction(0, 1), EmptyProgress}

\* C12 witness: the call has returned for an empty batch.
C12_Witness ==
    /\ pc = "done"
    /\ total_files = 0
    /\ all_data = <<>>
    /\ progress_bar = EmptyProgress

\* C13: the records of all_data are in the order in which the dispatcher
\* handled the completions: a step leaves all_data as it is or puts the
\* record of the future it handles behind all the records handled before,
\* wherever that future stands in the submission order.
C13_CompletionOrder ==
    [][\/ all_data' = all_data
       \/ \E f \in yielded' \ yielded :
             /\ IsRecord(result[f])
             /\ all_data' = Append(all_data, [data |-> result[f].val,
                                              of |-> f])]_vars

\* C13 witness: the record of the second document was appended while the
\* first document, which also gives a record, is not handled yet.
C13_Witness ==
    /\ Len(all_data) = 1
    /\ all_data[1].of = 2
    /\ 1 \notin yielded
    /\ IsRecord(ExtractPdfData(pdf_files[1]))
    /\ GetValue(pdf_files[1]).kind = "returned"

\* C14: the handler reports "No valid data extracted" once, when the batch
\* call has returned, if and only if no document of the batch gave a
\* record; it comes on top of the warnings and errors of the documents,
\* which stay one per empty or failed document, and is never reported next
\* to a returned record.
C14_BatchEmptySurfacedOnce ==
    /\ pc # "reported" => top_level = <<>>
    /\ pc = "reported" =>
          /\ Len(top_level) = 1
          /\ top_level[1] = "No valid data extracted"
                <=> \A f \in Submitted : ~IsRecord(result[f])
          /\ all_data # <<>> => top_level[1] = "success"
          /\ Len(warnings) = Cardinality({f \in Submitted : IsEmpty(result[f])})
          /\ Len(errors) = Cardinality({f \in Submitted : IsFailure(result[f])})

\* C14 witness: one document was empty and one failed, each has its own
\* report, and the handler has reported the batch as without valid data.
C14_Witness ==
    /\ pc = "reported"
    /\ top_level = <<"No valid data extracted">>
    /\ Len(warnings) = 1
    /\ Len(errors) = 1

\* C15: the step that settles the pool size.  When the caller gave no pool
\* size and os.cpu_count() reported c cores, the executor is constructed
\* with c - 1 workers, and with 1 worker when c - 1 is below 1, so with at
\* least one; when the caller gave a pool size, that value is the one used,
\* unchanged (and os.cpu_count() is not consulted).
C15_DefaultPoolSize ==
    [][(pc = "call" /\ pc' # "call") =>
          IF max_workers.given
          THEN /\ cpu_count' = CpuUnread
               /\ pc' # "raised" => max_workers' = max_workers
          ELSE cpu_count' \in 1..MaxCpu =>
                  /\ pc' # "raised"
                  /\ max_workers'.given
                  /\ max_workers'.n >= 1
                  /\ max_workers'.n =
                        IF cpu_count' >= 2 THEN cpu_count' - 1 ELSE 1]_vars

\* C15 witness: one core was reported, no pool size was given, and the
\* pool has one worker, which is running a task.
C15_Witness ==
    /\ cpu_count = 1
    /\ max_workers = Given(1)
    /\ Cardinality(Running) = 1

\* C16: at every moment, every task that has materialized its document and
\* not yet left its finally clause has its own temporary file at its own
\* path: the file at that path is the one this task wrote (no other task
\* has overwritten or deleted it), and no other such task has the same
\* path, also when two tasks were submitted for the same document.
C16_PrivateTempPaths ==
    \A f \in Running :
       /\ temp_file_path[f] \in Paths
       /\ fs[temp_file_path[f]] = f
       /\ \A g \in Running \ {f} : temp_file_path[g] # temp_file_path[f]

\* C16 witness: the same document was submitted twice and both tasks are
\* inside the extraction call at once, each with its own file.
C16_Witness ==
    /\ Len(future_to_pdf) = 2
    /\ future_to_pdf[1] = future_to_pdf[2]
    /\ tstate[1] = "extract"
    /\ tstate[2] = "extract"
    /\ fs[temp_file_path[1]] = 1
    /\ fs[temp_file_path[2]] = 2

\* C17: within each task the steps come in the order materialize, extract,
\* delete, return.  While the extraction call is pending the document's
\* file has been written and closed and is still there, and nothing has
\* been unlinked; the unlink is attempted only once the extraction has
\* returned or raised; and a task that ran the extraction has no result
\* before the unlink has been attempted.
C17_StepOrder ==
    \A f \in Futures :
       /\ tstate[f] = "extract" =>
             /\ GetValue(future_to_pdf[f]).kind = "returned"
             /\ fs[temp_file_path[f]] = f
             /\ pdf_data[f] = NoOutcome
             /\ unlink_res[f] = "none"
             /\ result[f] = NoOutcome
       /\ tstate[f] = "cleanup" =>
             /\ pdf_data[f] # NoOutcome
             /\ fs[temp_file_path[f]] = f
             /\ unlink_res[f] = "none"
             /\ result[f] = NoOutcome
       /\ unlink_res[f] # "none" => pdf_data[f] # NoOutcome
       /\ (result[f] # NoOutcome /\ pdf_data[f] # NoOutcome) =>
             unlink_res[f] # "none"

\* C17 witness: a task whose extraction raised is about to delete its file,
\* which is still there, and has not returned yet.
C17_Witness ==
    \E f \in Futures :
       /\ tstate[f] = "cleanup"
       /\ pdf_data[f].kind = "raised"
       /\ fs[temp_file_path[f]] = f
       /\ result[f] = NoOutcome

\* C18: the extraction function is invoked at most once per submitted
\* document.  In every step: a task whose extraction call has returned or
\* raised keeps that outcome and is never again queued or inside the call;
\* a finished task stays finished; a submitted future keeps its document
\* and no more futures exist than the batch has documents.  And when the
\* call returns, a document whose extraction raised or returned empty
\* content has been reported exactly once, as a warning or an error, and
\* has no record.
C18_ExtractionAtMostOnce ==
    [][/\ \A f \in Futures :
             /\ pdf_data[f] # NoOutcome =>
                   /\ pdf_data'[f] = pdf_data[f]
                   /\ tstate'[f] \in {"cleanup", "finished"}
             /\ tstate[f] = "finished" => tstate'[f] = "finished"
             /\ f \in Submitted =>
                   /\ f \in DOMAIN future_to_pdf'
                   /\ future_to_pdf'[f] = future_to_pdf[f]
       /\ Len(future_to_pdf') <= total_files
       /\ pc' = "done" =>
             \A f \in Futures :
                (pdf_data'[f] # NoOutcome /\ ~IsRecord(pdf_data'[f])) =>
                   /\ Cardinality({k \in 1..Len(warnings') :
                                      warnings'[k].of = f})
                        + Cardinality({k \in 1..Len(errors') :
                                          errors'[k].of = f}) = 1
                   /\ \A k \in 1..Len(all_data') : all_data'[k].of # f]_vars

\* C18 witness: the call has returned for a batch of one document whose
\* extraction raised and one whose extraction returned empty content; each
\* was extracted and reported, and nothing more was submitted.
C18_Witness ==
    /\ pc = "done"
    /\ Len(future_to_pdf) = 2
    /\ \E f \in Submitted : pdf_data[f].kind = "raised"
    /\ \E f \in Submitted : IsEmpty(pdf_data[f])
    /\ Len(warnings) + Len(errors) = 2

\* C19: under FairSpec (every extraction call terminates, and a step of
\* the dispatcher or of a worker that stays possible is eventually taken),
\* once the executor exists with a pool of at least one worker the call
\* eventually returns, whatever the batch size and the pool size; and every
\* task that is queued or running eventually finishes, so no task stays
\* pending forever and the dispatcher never waits for a completion that
\* cannot arrive.
C19_EventuallyReturns ==
    /\ (pc \in {"submit", "collect"} /\ max_workers.n >= 1) ~> (pc = "done")
    /\ \A f \in Futures :
          (tstate[f] \in {"queued", "extract", "cleanup"})
             ~> (tstate[f] = "finished")
    /\ \A f \in Futures :
          (pc = "collect" /\ f \in Submitted) ~> (f \in yielded)

\* C19 witness: the call has returned for a batch of two documents that a
\* pool of one worker processed, one after the other.
C19_Witness ==
    /\ pc = "done"
    /\ total_files = 2
    /\ max_workers.n = 1
    /\ yielded = {1, 2}

====
